---- MODULE Spec2Model ----
(***************************************************************************)
(* Model of the Aurora Studio video composer: the zustand store            *)
(* (useAppStore), the timeline handlers of VideoComposerModule, the frame  *)
(* renderer, the preview loop and the export pipeline.                     *)
(*                                                                         *)
(* Times are integers in hundredths of a second (0.6 s = 60).              *)
(***************************************************************************)
EXTENDS Integers, Sequences, FiniteSets, TLC

\* ------------------------------------------------------------------ bounds
MaxClips == 2        \* clips the store timeline may hold
MaxMedia == 2        \* assets the media library may hold
MaxAudios == 1       \* generated audios the store may hold
MaxExports == 1      \* exports that get past the guard of handleExport
MaxPureClips == 3    \* length of the clip lists handed to the pure functions
ClockStep == 150     \* granularity at which the audio clock is observed
MaxChunks == 2       \* dataavailable events one recorder delivers
MaxRenderClips == 2  \* length of the timelines handed to the renderer
MaxRepeatExports == 2 \* exports made one after the other
MaxStoredAudios == 3 \* audios held when the audio list is what is examined

\* ------------------------------------------------------- program constants
TRANSITION_DURATION == 60
CANVAS_WIDTH == 1280
\* drawMedia: a video is sought at most to its duration less 0.05 s, and only
\* when it is more than 0.03 s away from the target
END_MARGIN == 5
SEEK_TOLERANCE == 3
NULL == 0
MISMATCH_TOLERANCE == 80

TransitionTypes == {"nenhuma", "crossfade", "fade-in", "cine-sweep", "white-flash"}
ComposerModes == {"simples", "avancado"}

\* ----------------------------------------------------------------- helpers
Min(a, b) == IF a < b THEN a ELSE b
Max(a, b) == IF a > b THEN a ELSE b
Abs(a) == IF a < 0 THEN -a ELSE a

Range(s) == {s[i] : i \in 1..Len(s)}

\* Array.prototype.filter
Filter(s, Keep(_)) == SelectSeq(s, Keep)

\* Array.prototype.findIndex, 1-based; 0 stands for -1
FindIndex(s, Test(_)) ==
    IF \E i \in 1..Len(s) : Test(s[i])
    THEN CHOOSE i \in 1..Len(s) : Test(s[i]) /\ \A j \in 1..(i - 1) : ~Test(s[j])
    ELSE 0

\* smallest id of 1..n that is not in use (crypto.randomUUID: a fresh id)
FreshId(used, n) == CHOOSE i \in 1..n : i \notin used /\ \A j \in 1..(i - 1) : j \in used

\* ------------------------------------------------------ Timeline Normalizer
\* cursor after the first n clips: the sum of their durations
RECURSIVE Cursor(_, _)
Cursor(clips, n) == IF n = 0 THEN 0 ELSE Cursor(clips, n - 1) + clips[n].duration

\* faulty variant: the cursor is advanced before the start is stored
normalizeTimelineLate(clips) ==
    [i \in 1..Len(clips) |-> [clips[i] EXCEPT !.start = Cursor(clips, i)]]

\* faulty variant: the cursor restarts from the stored start of the clip before
normalizeTimelineStale(clips) ==
    [i \in 1..Len(clips) |->
        [clips[i] EXCEPT !.start =
            IF i = 1 THEN 0 ELSE clips[i - 1].start + clips[i - 1].duration]]

normalizeTimeline(clips) ==
    [i \in 1..Len(clips) |-> [clips[i] EXCEPT !.start = Cursor(clips, i - 1)]]

\* the normalization invariant of a clip list
IsNormalized(clips) ==
    \A i \in 1..Len(clips) :
        clips[i].start = IF i = 1 THEN 0 ELSE clips[i - 1].start + clips[i - 1].duration


\* ------------------------------------------------------------ Frame Renderer
\* faulty variant: a clip's interval is taken open at its start
SelectClipStrict(nt, time) ==
    IF Len(nt) = 0
    THEN [index |-> 0, localTime |-> 0]
    ELSE LET currentIndex ==
                 FindIndex(nt, LAMBDA clip :
                     time > clip.start /\ time < clip.start + clip.duration)
             safeIndex == IF currentIndex = 0 THEN Len(nt) ELSE currentIndex
         IN  [index |-> safeIndex, localTime |-> time - nt[safeIndex].start]

\* faulty variant: the first clip is the fallback
SelectClipFirstFallback(nt, time) ==
    IF Len(nt) = 0
    THEN [index |-> 0, localTime |-> 0]
    ELSE LET currentIndex ==
                 FindIndex(nt, LAMBDA clip :
                     time >= clip.start /\ time < clip.start + clip.duration)
             safeIndex == IF currentIndex = 0 THEN 1 ELSE currentIndex
         IN  [index |-> safeIndex, localTime |-> time - nt[safeIndex].start]

\* renderFrame, the choice of the clip: the first clip whose interval holds
\* the time, else the last clip; index 0 when the timeline is empty (nothing
\* but the background is drawn)
SelectClip(nt, time) ==
    IF Len(nt) = 0
    THEN [index |-> 0, localTime |-> 0]
    ELSE LET currentIndex ==
                 FindIndex(nt, LAMBDA clip :
                     time >= clip.start /\ time < clip.start + clip.duration)
             safeIndex == IF currentIndex = 0 THEN Len(nt) ELSE currentIndex
         IN  [index |-> safeIndex, localTime |-> time - nt[safeIndex].start]

\* Opacities are integers in units of 1/300 (OpacityOne stands for 1.0), so
\* that a progress in sixtieths and an opacity in hundredths are both exact.
OpacityOne == 5 * TRANSITION_DURATION
NotDrawn == 0 - 1

\* faulty variant: the progress is not clamped
ProgressUnclamped(localTime) == localTime

\* Math.min(1, Math.max(0, localTime / TRANSITION_DURATION)), in units of
\* 1/TRANSITION_DURATION
Progress(localTime) == Min(TRANSITION_DURATION, Max(0, localTime))

\* the opacity that stands for a progress
ProgressOpacity(p) == (OpacityOne \div TRANSITION_DURATION) * p

\* Number.prototype.toFixed(2) of an opacity: the nearest hundredth
ToFixed2(o) == 3 * ((2 * o + 3) \div 6)

\* faulty variant: the overlay fades in instead of out
FadeInAlphaRising(p) == ProgressOpacity(p)

\* the black overlay of fade-in: rgba(0,0,0,1 - progress)
FadeInAlpha(p) == OpacityOne - ProgressOpacity(p)

\* faulty variant: the opacity is written without toFixed(2)
WhiteFlashAlphaExact(p) == Max(0, OpacityOne - ProgressOpacity(p) * 2)

\* the white overlay of applyTransitionOverlay:
\* Math.max(0, 1 - progress * 2).toFixed(2)
WhiteFlashAlpha(p) == ToFixed2(Max(0, OpacityOne - ProgressOpacity(p) * 2))

\* the cine-sweep of applyTransitionOverlay, after its rgba(0,0,0,0.7) fill of
\* the canvas: a destination-out fill of the columns [0, CANVAS_WIDTH * sweep),
\* which erases them; the part of the canvas width erased, in units of
\* 1/TRANSITION_DURATION
SweepErased(p) == p

\* the cine-sweep of applyTransitionOverlay: the width of the rectangle of
\* its second fill that lies on the canvas (CANVAS_WIDTH * sweep, from the
\* left edge), in pixels times TRANSITION_DURATION
SweepWidth(p) == CANVAS_WIDTH * p

\* faulty variant: the target may be the end of the video
SafeTimeToEnd(timestamp, duration) == Max(0, Min(timestamp, duration))

\* drawMedia, the position a video is sought to (safeTime)
SafeTime(timestamp, duration) == Max(0, Min(timestamp, duration - END_MARGIN))

\* renderFrame, crossfade: the timestamp handed to drawMedia for the previous
\* clip
PreviousTimestamp(previousDuration, localTime) ==
    previousDuration - (TRANSITION_DURATION - localTime)

\* what normalizedTimeline[safeIndex - 1] gives for the first clip (undefined)
NoClip == [id |-> NULL, mediaId |-> NULL, start |-> 0, duration |-> 0,
           transition |-> "nenhuma"]

\* faulty variant: the clip before the first one is the last one
PreviousClipWraps(nt, index) == nt[IF index > 1 THEN index - 1 ELSE Len(nt)]

\* renderFrame, previousClip
PreviousClip(nt, index) == IF index > 1 THEN nt[index - 1] ELSE NoClip

\* renderFrame, what is drawn over the background for the clip chosen: the
\* alpha of the previous clip's media (NotDrawn if it is not drawn), the alpha
\* of the current clip's media, the overlay, the width swept by the
\* cine-sweep, the part of the canvas erased,
\* and the timestamp at which the previous clip's media is drawn.  background: the canvas was first filled with #050814, which
\* renderFrame does before anything else.  cache: the ids of the media whose
\* element mediaCache holds.
RenderedLayers(nt, time, cache) ==
    LET sel == SelectClip(nt, time)
        nothing == [background |-> TRUE, prev |-> NotDrawn, cur |-> NotDrawn,
                    overlay |-> "none", overlayAlpha |-> 0, erased |-> 0,
                    swept |-> 0, prevTime |-> 0]
    IN  IF sel.index = 0 THEN nothing
        ELSE LET currentClip == nt[sel.index]
                 previousClip == PreviousClip(nt, sel.index)
                 localTime == sel.localTime
                 progress == Progress(localTime)
             IN  IF currentClip.mediaId \notin cache THEN nothing
                 ELSE IF currentClip.transition = "crossfade" /\ previousClip # NoClip
                 THEN [nothing EXCEPT
                          !.prev = IF previousClip.mediaId \in cache
                                   THEN OpacityOne - ProgressOpacity(progress)
                                   ELSE NotDrawn,
                          !.prevTime = IF previousClip.mediaId \in cache
                                       THEN PreviousTimestamp(previousClip.duration,
                                                              localTime)
                                       ELSE 0,
                          !.cur = ProgressOpacity(progress)]
                 ELSE CASE currentClip.transition = "fade-in" ->
                             [nothing EXCEPT !.cur = OpacityOne, !.overlay = "black",
                                             !.overlayAlpha = FadeInAlpha(progress)]
                        [] currentClip.transition = "white-flash" ->
                             [nothing EXCEPT !.cur = OpacityOne, !.overlay = "white",
                                             !.overlayAlpha = WhiteFlashAlpha(progress)]
                        [] currentClip.transition = "cine-sweep" ->
                             [nothing EXCEPT !.cur = OpacityOne, !.overlay = "sweep",
                                             !.overlayAlpha = (7 * OpacityOne) \div 10,
                                             !.swept = SweepWidth(progress),
                                             !.erased = SweepErased(progress)]
                        [] OTHER -> [nothing EXCEPT !.cur = OpacityOne]

\* -------------------------------------------------------------------- state
VARIABLES
    audios,        \* store: generated audios, newest first
    activeAudioId, \* store: id of the selected audio, or NULL
    mediaLibrary,  \* store: media assets, newest first
    timeline,      \* store: the clips, in playback order
    mode,          \* store: composer mode
    playerState,   \* component state: isPlaying, isExporting, currentTime
    audioEl,       \* the <audio> element: paused, currentTime
    animationRef,  \* animationRef.current: a frame-request id, or NULL
    rafQueue,      \* frame requests not yet run: records id, fn, gen (the export)
    effPlaying,    \* isPlaying as the preview-loop effect last ran with it
    exports,       \* one record per export started: position of handleExport, resources
    frame,         \* the last renderFrame call: timestamp and caller
    lastOp,        \* the last player handler called; "store" after a store update
    pure           \* argument and result of the pure function applied

storeVars == <<audios, activeAudioId, mediaLibrary, timeline, mode>>
playerVars == <<playerState, audioEl, animationRef, rafQueue, effPlaying, exports, frame>>
vars == <<audios, activeAudioId, mediaLibrary, timeline, mode, playerState, audioEl,
          animationRef, rafQueue, effPlaying, exports, frame, lastOp, pure>>

\* what a file upload can produce (getMediaMetadata, handleUpload): an image
\* gets duration 6 s, a video its own finite duration
UploadFiles == {[kind |-> "image", duration |-> 600], [kind |-> "video", duration |-> 450]}
\* what the speech module can produce (handleGenerate)
GeneratedAudios == {[durationSeconds |-> 300, durationEstimateSeconds |-> 200]}
\* values the duration slider can deliver (2 s .. 20 s)
SliderValues == {200}
\* the transition buttons pressed
TransitionChoices == {"crossfade"}
\* durations handed to updateMediaDuration
MediaDurations == {500}

NoAudio == [id |-> NULL, durationSeconds |-> 0, durationEstimateSeconds |-> 0]
NoAsset == [id |-> NULL, kind |-> "none", duration |-> 0]

\* const activeAudio = audios.find(...) ?? audios[0]
ActiveAudioOf(as, activeId) ==
    LET i == FindIndex(as, LAMBDA a : a.id = activeId)
    IN  IF i # 0 THEN as[i] ELSE IF Len(as) > 0 THEN as[1] ELSE NoAudio

activeAudio == ActiveAudioOf(audios, activeAudioId)

\* activeAudio.durationSeconds || activeAudio.durationEstimateSeconds
AudioDuration(a) ==
    IF a.durationSeconds # 0 THEN a.durationSeconds ELSE a.durationEstimateSeconds

\* mediaLibrary.find((asset) => asset.id === id)
AssetOf(lib, id) ==
    LET i == FindIndex(lib, LAMBDA a : a.id = id)
    IN  IF i # 0 THEN lib[i] ELSE NoAsset

\* faulty variant: the renderer is handed the timeline as the store holds it
normalizedTimelineStored == timeline

normalizedTimeline == normalizeTimeline(timeline)

\* compositionDuration: the sum of the clip durations
compositionDuration == Cursor(normalizedTimeline, Len(normalizedTimeline))

\* durationMismatch, for an active audio a (NoAudio: undefined) and a
\* composition of the given total duration
DurationMismatchOf(a, total) ==
    /\ a # NoAudio
    /\ Abs(AudioDuration(a) - total) > MISMATCH_TOLERANCE

durationMismatch == DurationMismatchOf(activeAudio, compositionDuration)

\* ------------------------------------------------- frame requests, effects
cancelAnimationFrame(q, id) == {r \in q : r.id # id}

\* requestAnimationFrame hands out an id that no pending request and no
\* remembered handle carries
NewHandle(q, ref) ==
    FreshId({r.id : r \in q} \cup {ref}, Cardinality(q) + 2)

\* The preview-loop effect, re-run for a change of isPlaying or renderFrame:
\* the cleanup of the run before (registered when that run was playing), then
\* the body.
PreviewEffect(wasPlaying, isPlaying, ref, q) ==
    LET q1 == IF wasPlaying /\ ref # NULL THEN cancelAnimationFrame(q, ref) ELSE q
    IN  IF ~isPlaying
        THEN [ref |-> ref,
              q |-> IF ref # NULL THEN cancelAnimationFrame(q1, ref) ELSE q1]
        ELSE LET id == NewHandle(q1, ref)
             IN  [ref |-> id, q |-> q1 \cup {[id |-> id, fn |-> "loop", gen |-> 0]}]

\* A render of the component that follows a handler run from a click or a
\* store update, effects included: the <audio> element takes the active
\* audio's url (a new url reloads the element: paused, position 0), the
\* preview-loop effect re-runs when isPlaying or renderFrame changed, and the
\* initial-frame effect draws timestamp 0 when renderFrame or the active audio
\* changed.  rfChanged: the handler stored a new timeline or media library.
Commit(rfChanged, ps, au, ref, q) ==
    LET srcChanged == ActiveAudioOf(audios', activeAudioId').id # activeAudio.id
        eff == IF rfChanged \/ ps.isPlaying # effPlaying
               THEN PreviewEffect(effPlaying, ps.isPlaying, ref, q)
               ELSE [ref |-> ref, q |-> q]
    IN  /\ playerState' = ps
        /\ audioEl' = IF srcChanged THEN [paused |-> TRUE, currentTime |-> 0] ELSE au
        /\ animationRef' = eff.ref
        /\ rafQueue' = eff.q
        /\ effPlaying' = ps.isPlaying
        /\ frame' = IF rfChanged \/ srcChanged THEN [t |-> 0, by |-> "initial"] ELSE frame

\* a store update with no change to the player's own state
StoreCommit(rfChanged) == Commit(rfChanged, playerState, audioEl, animationRef, rafQueue)

NoPure == [fn |-> "none", clips |-> <<>>, t |-> 0, out |-> <<>>, out2 |-> <<>>,
           audio |-> NoAudio, mismatch |-> FALSE, cache |-> {},
           layers |-> [background |-> FALSE, prev |-> NotDrawn, cur |-> NotDrawn,
                       overlay |-> "none", overlayAlpha |-> 0, erased |-> 0,
                       swept |-> 0, prevTime |-> 0],
           video |-> [duration |-> 0, currentTime |-> 0, seeked |-> FALSE, from |-> 0],
           sel |-> [index |-> 0, localTime |-> 0]]

Init ==
    /\ audios = <<>>
    /\ activeAudioId = NULL
    /\ mediaLibrary = <<>>
    /\ timeline = <<>>
    /\ mode = "simples"
    /\ playerState = [isPlaying |-> FALSE, isExporting |-> FALSE, currentTime |-> 0]
    /\ audioEl = [paused |-> TRUE, currentTime |-> 0]
    /\ animationRef = NULL
    /\ rafQueue = {}
    /\ effPlaying = FALSE
    /\ exports = <<>>
    /\ frame = [t |-> 0, by |-> "initial"]
    /\ lastOp = "none"
    /\ pure = NoPure

\* ------------------------------------------------------------ store actions
\* addAudio, called by the speech module with a newly generated audio
AddAudioUpTo(n) ==
    /\ Len(audios) < n
    /\ \E g \in GeneratedAudios :
         LET audio == [id |-> FreshId({a.id : a \in Range(audios)}, n),
                       durationSeconds |-> g.durationSeconds,
                       durationEstimateSeconds |-> g.durationEstimateSeconds]
         IN  /\ audios' = <<audio>> \o audios
             /\ activeAudioId' = audio.id
    /\ UNCHANGED <<mediaLibrary, timeline, mode, exports, pure>>
    /\ StoreCommit(FALSE)
    /\ lastOp' = "store"

AddAudio == AddAudioUpTo(MaxAudios)

\* setActiveAudio, called by the audio list buttons with an audio's id
SetActiveAudio ==
    /\ \E a \in Range(audios) : activeAudioId' = a.id
    /\ UNCHANGED <<audios, mediaLibrary, timeline, mode, exports, pure>>
    /\ StoreCommit(FALSE)
    /\ lastOp' = "store"

\* faulty variant: removeAudio leaves activeAudioId as it is
RemoveAudioKeepsActive ==
    /\ \E id \in {a.id : a \in Range(audios)} :
         audios' = Filter(audios, LAMBDA a : a.id # id)
    /\ UNCHANGED <<activeAudioId, mediaLibrary, timeline, mode, exports, pure>>
    /\ StoreCommit(FALSE)
    /\ lastOp' = "store"

\* removeAudio
RemoveAudio ==
    /\ \E id \in {a.id : a \in Range(audios)} :
         LET remaining == Filter(audios, LAMBDA a : a.id # id)
         IN  /\ audios' = remaining
             /\ activeAudioId' = IF activeAudioId = id
                                 THEN (IF Len(remaining) > 0 THEN remaining[1].id ELSE NULL)
                                 ELSE activeAudioId
    /\ UNCHANGED <<mediaLibrary, timeline, mode, exports, pure>>
    /\ StoreCommit(FALSE)
    /\ lastOp' = "store"

\* handleUpload: addMedia of one uploaded file
HandleUpload ==
    /\ Len(mediaLibrary) < MaxMedia
    /\ \E f \in UploadFiles :
         LET asset == [id |-> FreshId({a.id : a \in Range(mediaLibrary)}, MaxMedia),
                       kind |-> f.kind, duration |-> f.duration]
         IN  mediaLibrary' = <<asset>> \o mediaLibrary
    /\ UNCHANGED <<audios, activeAudioId, timeline, mode, exports, pure>>
    /\ StoreCommit(TRUE)
    /\ lastOp' = "store"

\* setTimeline as a handler calls it
SetTimeline(clips) ==
    /\ timeline' = clips
    /\ UNCHANGED <<audios, activeAudioId, mediaLibrary, mode, exports, pure>>
    /\ StoreCommit(TRUE)
    /\ lastOp' = "store"

\* arrayMove(array, from, to) of @dnd-kit/sortable
arrayMove(s, from, to) ==
    LET rest == [i \in 1..(Len(s) - 1) |-> IF i < from THEN s[i] ELSE s[i + 1]]
    IN  [i \in 1..Len(s) |-> IF i < to THEN rest[i] ELSE IF i = to THEN s[from] ELSE rest[i - 1]]

HandleDragEnd ==
    \E oldIndex, newIndex \in 1..Len(timeline) :
        /\ timeline[oldIndex].id # timeline[newIndex].id
        /\ SetTimeline(normalizeTimeline(arrayMove(timeline, oldIndex, newIndex)))

\* handleAddToTimeline: the library button of the advanced mode
HandleAddToTimeline ==
    /\ mode = "avancado"
    /\ Len(timeline) < MaxClips
    /\ \E asset \in Range(mediaLibrary) :
         LET total == Cursor(timeline, Len(timeline))
             duration == IF asset.kind = "image"
                         THEN Max(400, Min(1200, asset.duration))
                         ELSE asset.duration
             clip == [id |-> FreshId({c.id : c \in Range(timeline)}, MaxClips),
                      mediaId |-> asset.id,
                      start |-> total,
                      duration |-> duration,
                      transition |-> IF Len(timeline) = 0 THEN "fade-in" ELSE "nenhuma"]
         IN  SetTimeline(normalizeTimeline(timeline \o <<clip>>))

\* handleApplySimpleImage: the library button of the simple mode
HandleApplySimpleImage ==
    /\ mode = "simples"
    /\ activeAudio # NoAudio
    /\ \E asset \in Range(mediaLibrary) :
         LET clip == [id |-> FreshId({}, MaxClips),
                      mediaId |-> asset.id,
                      start |-> 0,
                      duration |-> Max(100, AudioDuration(activeAudio)),
                      transition |-> "fade-in"]
         IN  SetTimeline(<<clip>>)

\* the clip cards shown: SortableClipCard renders nothing for a clip whose
\* media is not in the library
Cards == {i \in 1..Len(timeline) : AssetOf(mediaLibrary, timeline[i].mediaId) # NoAsset}

HandleRemoveClip ==
    \E i \in Cards :
        SetTimeline(normalizeTimeline(Filter(timeline, LAMBDA c : c.id # timeline[i].id)))

\* handleDurationChange: the slider, enabled for image clips only
HandleDurationChange ==
    \E i \in Cards, duration \in SliderValues :
        /\ AssetOf(mediaLibrary, timeline[i].mediaId).kind = "image"
        /\ duration # timeline[i].duration
        /\ SetTimeline(normalizeTimeline(
               [j \in 1..Len(timeline) |->
                   IF timeline[j].id = timeline[i].id
                   THEN [timeline[j] EXCEPT !.duration = duration] ELSE timeline[j]]))

HandleTransitionChange ==
    \E i \in Cards, transition \in TransitionChoices :
        SetTimeline([j \in 1..Len(timeline) |->
                        IF timeline[j].id = timeline[i].id
                        THEN [timeline[j] EXCEPT !.transition = transition] ELSE timeline[j]])

\* faulty variant: removeMedia leaves the timeline as it is
HandleRemoveMediaKeepsClips ==
    /\ \E asset \in Range(mediaLibrary) :
         mediaLibrary' = Filter(mediaLibrary, LAMBDA a : a.id # asset.id)
    /\ UNCHANGED <<audios, activeAudioId, timeline, mode, exports, pure>>
    /\ StoreCommit(TRUE)
    /\ lastOp' = "store"

\* handleRemoveMedia: removeMedia of the store
HandleRemoveMedia ==
    /\ \E asset \in Range(mediaLibrary) :
         /\ mediaLibrary' = Filter(mediaLibrary, LAMBDA a : a.id # asset.id)
         /\ timeline' = Filter(timeline, LAMBDA c : c.mediaId # asset.id)
    /\ UNCHANGED <<audios, activeAudioId, mode, exports, pure>>
    /\ StoreCommit(TRUE)
    /\ lastOp' = "store"

\* updateMediaDuration of the store
UpdateMediaDuration ==
    /\ \E asset \in Range(mediaLibrary), duration \in MediaDurations :
         /\ mediaLibrary' = [i \in 1..Len(mediaLibrary) |->
                                IF mediaLibrary[i].id = asset.id
                                THEN [mediaLibrary[i] EXCEPT !.duration = duration]
                                ELSE mediaLibrary[i]]
         /\ timeline' = [i \in 1..Len(timeline) |->
                            IF timeline[i].mediaId = asset.id
                            THEN [timeline[i] EXCEPT !.duration = duration]
                            ELSE timeline[i]]
    /\ UNCHANGED <<audios, activeAudioId, mode, exports, pure>>
    /\ StoreCommit(TRUE)
    /\ lastOp' = "store"

\* faulty variant: the mode is set and the timeline is left as it is
HandleModeChangeKeepsClips ==
    /\ \E value \in ComposerModes : mode' = value
    /\ UNCHANGED <<audios, activeAudioId, mediaLibrary, timeline, exports, pure>>
    /\ StoreCommit(FALSE)
    /\ lastOp' = "store"

\* handleModeChange: setMode, then the cut to one clip in simple mode
HandleModeChange ==
    /\ \E value \in ComposerModes :
         /\ mode' = value
         /\ timeline' = IF value = "simples" /\ Len(timeline) > 1
                        THEN SubSeq(timeline, 1, 1) ELSE timeline
    /\ UNCHANGED <<audios, activeAudioId, mediaLibrary, exports, pure>>
    /\ StoreCommit(mode' = "simples" /\ Len(timeline) > 1)
    /\ lastOp' = "store"

\* ----------------------------------------------------------- audio element
\* the instants at which the audio clock is observed, for a track of length d
ClockInstants(d) == {t \in 0..d : t % ClockStep = 0 \/ t = d}

\* the length of the track the <audio> element plays
TrackLength == activeAudio.durationSeconds

\* playback advances the clock
AudioAdvance ==
    /\ ~audioEl.paused
    /\ \E t \in ClockInstants(TrackLength) :
         /\ t > audioEl.currentTime
         /\ audioEl' = [audioEl EXCEPT !.currentTime = t]
    /\ UNCHANGED <<storeVars, playerState, animationRef, rafQueue, effPlaying, exports, frame,
                   lastOp, pure>>

\* faulty variant: handleEnded leaves the audio clock where playback ended
AudioEndedKeepsClock ==
    /\ ~audioEl.paused
    /\ audioEl.currentTime >= TrackLength
    /\ playerState' = [playerState EXCEPT !.isPlaying = FALSE, !.currentTime = 0]
    /\ audioEl' = [audioEl EXCEPT !.paused = TRUE]
    /\ UNCHANGED <<storeVars, animationRef, rafQueue, effPlaying, exports, frame, lastOp, pure>>

\* playback reaches the end of the track: the element pauses and fires
\* "ended", which runs handleEnded
AudioEnded ==
    /\ ~audioEl.paused
    /\ audioEl.currentTime >= TrackLength
    /\ playerState' = [playerState EXCEPT !.isPlaying = FALSE, !.currentTime = 0]
    /\ audioEl' = [paused |-> TRUE, currentTime |-> 0]
    /\ UNCHANGED <<storeVars, animationRef, rafQueue, effPlaying, exports, frame, lastOp, pure>>

\* ------------------------------------------------------------- preview loop
\* the Preview and Export buttons: disabled={!activeAudio || !timeline.length
\* || playerState.isExporting}
ButtonsDisabled ==
    activeAudio = NoAudio \/ Len(timeline) = 0 \/ playerState.isExporting

\* the frame record restarts when playback starts
FrameAtStart(wasPlaying) == IF wasPlaying THEN frame ELSE [t |-> frame.t, by |-> "none"]

\* faulty variant: play goes on from the position of the pause
PlayToggleResumes ==
    /\ UNCHANGED <<storeVars, exports, pure>>
    /\ IF playerState.isPlaying
       THEN /\ Commit(FALSE, [playerState EXCEPT !.isPlaying = FALSE],
                      [audioEl EXCEPT !.paused = TRUE], animationRef, rafQueue)
            /\ lastOp' = "pause"
       ELSE /\ playerState' = [playerState EXCEPT !.isPlaying = TRUE]
            /\ audioEl' = [audioEl EXCEPT !.paused = FALSE]
            /\ LET eff == IF ~effPlaying
                          THEN PreviewEffect(effPlaying, TRUE, animationRef, rafQueue)
                          ELSE [ref |-> animationRef, q |-> rafQueue]
               IN  animationRef' = eff.ref /\ rafQueue' = eff.q
            /\ effPlaying' = TRUE
            /\ frame' = FrameAtStart(FALSE)
            /\ lastOp' = "play"

\* handlePlayToggle, as the Preview button calls it
PlayToggle ==
    /\ UNCHANGED <<storeVars, exports, pure>>
    /\ IF playerState.isPlaying
       THEN /\ Commit(FALSE, [playerState EXCEPT !.isPlaying = FALSE],
                      [audioEl EXCEPT !.paused = TRUE], animationRef, rafQueue)
            /\ lastOp' = "pause"
       ELSE /\ playerState' = [playerState EXCEPT !.isPlaying = TRUE, !.currentTime = 0]
            /\ audioEl' = [paused |-> FALSE, currentTime |-> 0]
            /\ LET eff == IF ~effPlaying
                          THEN PreviewEffect(effPlaying, TRUE, animationRef, rafQueue)
                          ELSE [ref |-> animationRef, q |-> rafQueue]
               IN  animationRef' = eff.ref /\ rafQueue' = eff.q
            /\ effPlaying' = TRUE
            /\ frame' = FrameAtStart(FALSE)
            /\ lastOp' = "play"

\* faulty variant: the Preview button is never disabled
HandlePlayToggleAlways == PlayToggle

\* a click on the Preview button: a disabled button calls no handler
HandlePlayToggle ==
    IF ButtonsDisabled
    THEN /\ lastOp' = "preview disabled"
         /\ UNCHANGED <<storeVars, playerVars, pure>>
    ELSE PlayToggle

\* the preview-loop effect run after a render that no click or store update
\* caused (state set from a frame callback or a media event)
FlushEffects ==
    /\ effPlaying # playerState.isPlaying
    /\ LET eff == PreviewEffect(effPlaying, playerState.isPlaying, animationRef, rafQueue)
       IN  animationRef' = eff.ref /\ rafQueue' = eff.q
    /\ effPlaying' = playerState.isPlaying
    /\ UNCHANGED <<storeVars, playerState, audioEl, exports, frame, lastOp, pure>>

\* one step of the preview loop (loop of the preview-loop effect)
PreviewLoopStep ==
    \E r \in rafQueue :
        /\ r.fn = "loop"
        /\ frame' = [t |-> audioEl.currentTime, by |-> "loop"]
        /\ IF ~audioEl.paused
           THEN LET q == rafQueue \ {r}
                    id == NewHandle(q, animationRef)
                IN  /\ playerState' = [playerState EXCEPT !.currentTime = audioEl.currentTime]
                    /\ animationRef' = id
                    /\ rafQueue' = q \cup {[id |-> id, fn |-> "loop", gen |-> 0]}
           ELSE /\ playerState' = [playerState EXCEPT !.isPlaying = FALSE]
                /\ rafQueue' = rafQueue \ {r}
                /\ UNCHANGED animationRef
        /\ UNCHANGED <<storeVars, audioEl, effPlaying, exports, lastOp, pure>>

\* ---------------------------------------------------------- export pipeline
\* the steps of the export setup that can throw
SetupFailures == {"none", "captureStream", "createMediaElementSource", "MediaRecorder"}

\* what one call of handleExport holds: the position of the async function
\* and the state of its audio context, audio nodes and recorder; calls: the
\* calls it has made on the audio element and the recorder, in order
NewExport == [pc |-> "setup", ctx |-> "none", nodes |-> "none", recorder |-> "none",
              chunks |-> <<>>, received |-> <<>>, artifacts |-> <<>>, calls |-> <<>>]

\* a guard that lets an empty timeline through
ExportGuardNoTimeline == activeAudio # NoAudio

\* if (!canvasRef.current || !activeAudio || !timeline.length) return
ExportGuard == activeAudio # NoAudio /\ Len(timeline) > 0

\* faulty variant: the player state is set before the streams are set up
HandleExportStateFirst ==
    /\ ~playerState.isExporting
    /\ ExportGuard
    /\ Len(exports) < MaxExports
    /\ lastOp' = "handleExport"
    /\ exports' = Append(exports, [NewExport EXCEPT !.pc = "failed"])
    /\ playerState' = [playerState EXCEPT !.isExporting = TRUE, !.isPlaying = TRUE]
    /\ UNCHANGED <<storeVars, pure, audioEl, animationRef, rafQueue, effPlaying, frame>>

\* handleExport up to its first await.  The Export button is disabled while
\* an export is in progress; a call that the guard turns away returns at once.
HandleExportUpTo(n) ==
    /\ ~playerState.isExporting
    /\ lastOp' = "handleExport"
    /\ UNCHANGED <<storeVars, pure>>
    /\ IF ~ExportGuard
       THEN UNCHANGED playerVars
       ELSE /\ Len(exports) < n
            /\ \E fail \in SetupFailures :
                 IF fail # "none"
                 THEN /\ exports' = Append(exports,
                            CASE fail = "captureStream" ->
                                   [NewExport EXCEPT !.pc = "failed"]
                              [] fail = "createMediaElementSource" ->
                                   [NewExport EXCEPT !.pc = "failed", !.ctx = "open"]
                              [] fail = "MediaRecorder" ->
                                   [NewExport EXCEPT !.pc = "failed", !.ctx = "open",
                                                     !.nodes = "connected"])
                      /\ UNCHANGED <<playerState, audioEl, animationRef, rafQueue,
                                     effPlaying, frame>>
                 ELSE /\ exports' = Append(exports,
                            [NewExport EXCEPT !.pc = "resume", !.ctx = "open",
                                              !.nodes = "connected",
                                              !.recorder = "inactive",
                                              !.calls = <<"currentTime = 0">>])
                      /\ playerState' = [playerState EXCEPT !.isExporting = TRUE,
                                                            !.isPlaying = TRUE]
                      /\ audioEl' = [audioEl EXCEPT !.currentTime = 0]
                      /\ LET eff == IF ~effPlaying
                                    THEN PreviewEffect(effPlaying, TRUE, animationRef,
                                                       rafQueue)
                                    ELSE [ref |-> animationRef, q |-> rafQueue]
                         IN  animationRef' = eff.ref /\ rafQueue' = eff.q
                      /\ effPlaying' = TRUE
                      /\ frame' = FrameAtStart(playerState.isPlaying)

HandleExport == HandleExportUpTo(MaxExports)

\* await audioContext.resume() returns: recorder.start(1000 / 30), then
\* audioElement.play(); either call can fail
ExportResumed ==
    \E k \in 1..Len(exports) :
        /\ exports[k].pc = "resume"
        /\ \E fail \in {"none", "start", "play"} :
             \* an element with no source cannot start playing
             /\ fail = "none" => activeAudio # NoAudio
             /\ CASE fail = "start" ->
                       /\ exports' = [exports EXCEPT ![k].pc = "failed",
                                                     ![k].calls = Append(@, "recorder.start")]
                       /\ UNCHANGED audioEl
                  [] fail = "play" ->
                       /\ exports' = [exports EXCEPT ![k].pc = "failed",
                                                     ![k].recorder = "recording",
                                                     ![k].calls = @ \o <<"recorder.start",
                                                                         "audio.play">>]
                       /\ UNCHANGED audioEl
                  [] fail = "none" ->
                       /\ exports' = [exports EXCEPT ![k].pc = "play",
                                                     ![k].recorder = "recording",
                                                     ![k].calls = @ \o <<"recorder.start",
                                                                         "audio.play">>]
                       /\ audioEl' = [audioEl EXCEPT !.paused = FALSE]
        /\ UNCHANGED <<storeVars, playerState, animationRef, rafQueue, effPlaying, frame,
                       lastOp, pure>>

\* await audioElement.play() returns: the export loop is scheduled
ExportPlayResolved ==
    \E k \in 1..Len(exports) :
        /\ exports[k].pc = "play"
        /\ LET id == NewHandle(rafQueue, animationRef)
           IN  /\ animationRef' = id
               /\ rafQueue' = rafQueue \cup {[id |-> id, fn |-> "renderLoop", gen |-> k]}
        /\ exports' = [exports EXCEPT ![k].pc = "loop"]
        /\ UNCHANGED <<storeVars, playerState, audioEl, effPlaying, frame, lastOp, pure>>

\* the play() promise is rejected when the element is paused again before
\* playback began
ExportPlayAborted ==
    \E k \in 1..Len(exports) :
        /\ exports[k].pc = "play"
        /\ audioEl.paused
        /\ exports' = [exports EXCEPT ![k].pc = "failed"]
        /\ UNCHANGED <<storeVars, playerState, audioEl, animationRef, rafQueue, effPlaying,
                       frame, lastOp, pure>>

\* one step of the export loop (renderLoop of handleExport).  recorder.stop()
\* on a recorder that is no longer recording throws or does nothing,
\* depending on the browser.
ExportLoopStep ==
    \E r \in rafQueue :
        /\ r.fn = "renderLoop"
        /\ IF ~audioEl.paused
           THEN LET q == rafQueue \ {r}
                    id == NewHandle(q, animationRef)
                IN  /\ frame' = [t |-> audioEl.currentTime, by |-> "renderLoop"]
                    /\ animationRef' = id
                    /\ rafQueue' = q \cup {[r EXCEPT !.id = id]}
                    /\ UNCHANGED exports
           ELSE /\ rafQueue' = IF animationRef # NULL
                               THEN cancelAnimationFrame(rafQueue \ {r}, animationRef)
                               ELSE rafQueue \ {r}
                /\ UNCHANGED <<animationRef, frame>>
                /\ IF exports[r.gen].recorder = "recording"
                   THEN exports' = [exports EXCEPT ![r.gen].pc = "released",
                                                   ![r.gen].ctx = "closed",
                                                   ![r.gen].nodes = "disconnected",
                                                   ![r.gen].recorder = "stopping",
                                                   ![r.gen].calls = Append(@, "recorder.stop")]
                   ELSE \E throws \in BOOLEAN :
                          exports' = IF throws
                                     THEN [exports EXCEPT ![r.gen].pc = "failed",
                                              ![r.gen].calls = Append(@, "recorder.stop")]
                                     ELSE [exports EXCEPT ![r.gen].pc = "released",
                                              ![r.gen].ctx = "closed",
                                              ![r.gen].nodes = "disconnected",
                                              ![r.gen].calls = Append(@, "recorder.stop")]
        /\ UNCHANGED <<storeVars, playerState, audioEl, effPlaying, lastOp, pure>>

\* sizes of the data a dataavailable event can carry
ChunkSizes == {0, 1}

\* faulty variant: ondataavailable keeps empty chunks too
RecorderDataKeepsEmpty ==
    \E k \in 1..Len(exports), size \in ChunkSizes :
        /\ exports[k].recorder \in {"recording", "stopping"}
        /\ Len(exports[k].received) < MaxChunks
        /\ LET n == Len(exports[k].received) + 1
           IN  exports' = [exports EXCEPT
                   ![k].received = Append(@, [n |-> n, size |-> size]),
                   ![k].chunks = Append(@, n)]
        /\ UNCHANGED <<storeVars, playerState, audioEl, animationRef, rafQueue, effPlaying,
                       frame, lastOp, pure>>

\* recorder.ondataavailable: the n-th event of the recorder, while it records
\* and once more when it stops; received is the record of every event
RecorderData ==
    \E k \in 1..Len(exports), size \in ChunkSizes :
        /\ exports[k].recorder \in {"recording", "stopping"}
        /\ Len(exports[k].received) < MaxChunks
        /\ LET n == Len(exports[k].received) + 1
           IN  exports' = [exports EXCEPT
                   ![k].received = Append(@, [n |-> n, size |-> size]),
                   ![k].chunks = IF size > 0 THEN Append(@, n) ELSE @]
        /\ UNCHANGED <<storeVars, playerState, audioEl, animationRef, rafQueue, effPlaying,
                       frame, lastOp, pure>>

\* the recorder fails while recording: it stops by itself, and its stop event
\* follows
RecorderError ==
    \E k \in 1..Len(exports) :
        /\ exports[k].recorder = "recording"
        /\ exports' = [exports EXCEPT ![k].recorder = "stopping"]
        /\ UNCHANGED <<storeVars, playerState, audioEl, animationRef, rafQueue, effPlaying,
                       frame, lastOp, pure>>

\* recorder.onstop: the chunks become one Blob, which is handed to a download
\* link; the audio is paused and rewound, the player state reset
RecorderOnStop ==
    \E k \in 1..Len(exports) :
        /\ exports[k].recorder = "stopping"
        /\ exports' = [exports EXCEPT ![k].recorder = "stopped",
                                      ![k].artifacts = Append(@, exports[k].chunks)]
        /\ audioEl' = [paused |-> TRUE, currentTime |-> 0]
        /\ playerState' = [isPlaying |-> FALSE, isExporting |-> FALSE, currentTime |-> 0]
        /\ UNCHANGED <<storeVars, animationRef, rafQueue, effPlaying, frame, lastOp, pure>>

PlayerNext ==
    \/ AudioAdvance
    \/ AudioEnded
    \/ HandlePlayToggle
    \/ FlushEffects
    \/ PreviewLoopStep
    \/ HandleExport
    \/ ExportResumed
    \/ ExportPlayResolved
    \/ ExportPlayAborted
    \/ ExportLoopStep
    \/ RecorderError
    \/ RecorderOnStop

StoreNext ==
    \/ AddAudio
    \/ SetActiveAudio
    \/ RemoveAudio
    \/ HandleUpload
    \/ HandleDragEnd
    \/ HandleAddToTimeline
    \/ HandleApplySimpleImage
    \/ HandleRemoveClip
    \/ HandleDurationChange
    \/ HandleTransitionChange
    \/ HandleRemoveMedia
    \/ UpdateMediaDuration
    \/ HandleModeChange

SpecStore == Init /\ [][StoreNext]_vars

\* ----------------------------------------------------------- pure functions
\* The clip lists and times the pure functions are applied to.
PureDurations == {0, 300, 400}
PureStarts == {0, 400}
PureTimes == {0, 300, 400, 500, 699, 700, 1100}

PureClip(i, start, duration) ==
    [id |-> i, mediaId |-> (i % 2) + 1, start |-> start, duration |-> duration,
     transition |-> IF i = 1 THEN "fade-in" ELSE "crossfade"]

PureClipLists ==
    UNION {{[i \in 1..n |-> PureClip(i, st[i], du[i])] :
               st \in [1..n -> PureStarts], du \in [1..n -> PureDurations]} :
           n \in 0..MaxPureClips}

InitPure ==
    /\ audios = <<>>
    /\ activeAudioId = NULL
    /\ mediaLibrary = <<>>
    /\ timeline = <<>>
    /\ mode = "simples"
    /\ playerState = [isPlaying |-> FALSE, isExporting |-> FALSE, currentTime |-> 0]
    /\ audioEl = [paused |-> TRUE, currentTime |-> 0]
    /\ animationRef = NULL
    /\ rafQueue = {}
    /\ effPlaying = FALSE
    /\ exports = <<>>
    /\ frame = [t |-> 0, by |-> "initial"]
    /\ lastOp = "none"
    /\ \E clips \in PureClipLists, t \in PureTimes :
          pure = [NoPure EXCEPT !.fn = "input", !.clips = clips, !.t = t,
                                !.cache = {1, 2}]

\* normalizeTimeline(clips)
PureNormalize ==
    /\ pure.fn = "input"
    /\ pure' = [pure EXCEPT !.fn = "normalizeTimeline", !.out = normalizeTimeline(pure.clips)]
    /\ UNCHANGED <<storeVars, playerVars, lastOp>>

\* normalizeTimeline(normalizeTimeline(clips))
PureNormalizeAgain ==
    /\ pure.fn = "normalizeTimeline"
    /\ pure' = [pure EXCEPT !.fn = "normalizeTwice", !.out2 = normalizeTimeline(pure.out)]
    /\ UNCHANGED <<storeVars, playerVars, lastOp>>

\* renderFrame(ctx, t) over the normalized clips
PureRenderFrame ==
    /\ pure.fn = "normalizeTimeline"
    /\ pure' = [pure EXCEPT !.fn = "renderFrame",
                            !.sel = SelectClip(pure.out, pure.t),
                            !.layers = RenderedLayers(pure.out, pure.t, pure.cache)]
    /\ UNCHANGED <<storeVars, playerVars, lastOp>>

NextPure == PureNormalize \/ PureNormalizeAgain \/ PureRenderFrame

SpecPure == InitPure /\ [][NextPure]_vars

\* The frames the renderer is asked for: timelines of up to MaxRenderClips
\* clips with every transition, times inside and past the transition window
\* of each clip, and every content of the media cache.
RenderDurations == {100, 300}
RenderTimes == {0 - 50, 0, 10, 20, 29, 30, 59, 60, 61, 100, 120, 130, 160, 300, 320, 330, 360, 700}

RenderClipLists ==
    UNION {{[i \in 1..n |->
                [id |-> i, mediaId |-> i, start |-> 0, duration |-> du[i],
                 transition |-> tr[i]]] :
               du \in [1..n -> RenderDurations], tr \in [1..n -> TransitionTypes]} :
           n \in 1..MaxRenderClips}

InitRender ==
    /\ audios = <<>>
    /\ activeAudioId = NULL
    /\ mediaLibrary = <<>>
    /\ timeline = <<>>
    /\ mode = "simples"
    /\ playerState = [isPlaying |-> FALSE, isExporting |-> FALSE, currentTime |-> 0]
    /\ audioEl = [paused |-> TRUE, currentTime |-> 0]
    /\ animationRef = NULL
    /\ rafQueue = {}
    /\ effPlaying = FALSE
    /\ exports = <<>>
    /\ frame = [t |-> 0, by |-> "initial"]
    /\ lastOp = "none"
    /\ \E clips \in RenderClipLists, t \in RenderTimes, cache \in SUBSET (1..MaxRenderClips) :
          pure = [NoPure EXCEPT !.fn = "input", !.clips = clips, !.t = t, !.cache = cache]

SpecRender == InitRender /\ [][NextPure]_vars

\* The audios and timelines the duration advisory is computed for: no audio,
\* a measured duration of 0 (the estimate is then used), and measured
\* durations at and next to the tolerance around a 3 s timeline.
AdvisoryAudios ==
    {NoAudio} \cup
    {[id |-> 1, durationSeconds |-> d, durationEstimateSeconds |-> 300] :
        d \in {0, 220, 300, 380, 381}}

InitAdvisory ==
    /\ audios = <<>>
    /\ activeAudioId = NULL
    /\ mediaLibrary = <<>>
    /\ timeline = <<>>
    /\ mode = "simples"
    /\ playerState = [isPlaying |-> FALSE, isExporting |-> FALSE, currentTime |-> 0]
    /\ audioEl = [paused |-> TRUE, currentTime |-> 0]
    /\ animationRef = NULL
    /\ rafQueue = {}
    /\ effPlaying = FALSE
    /\ exports = <<>>
    /\ frame = [t |-> 0, by |-> "initial"]
    /\ lastOp = "none"
    /\ \E clips \in PureClipLists, a \in AdvisoryAudios :
          pure = [NoPure EXCEPT !.fn = "input", !.clips = clips, !.audio = a]

\* the render of the component: normalizedTimeline, compositionDuration and
\* durationMismatch are derived from the timeline and the active audio
PureDurationMismatch ==
    /\ pure.fn = "input"
    /\ LET nt == normalizeTimeline(pure.clips)
       IN  pure' = [pure EXCEPT !.fn = "durationMismatch",
                                !.out = nt,
                                !.mismatch = DurationMismatchOf(pure.audio,
                                                                Cursor(nt, Len(nt)))]
    /\ UNCHANGED <<storeVars, playerVars, lastOp>>

SpecAdvisory == InitAdvisory /\ [][PureDurationMismatch]_vars

\* The player with the store updates that reach it: an audio arrives and
\* goes, media is uploaded, applied to the audio and removed.
Next ==
    \/ PlayerNext
    \/ AddAudio
    \/ RemoveAudio
    \/ HandleUpload
    \/ HandleApplySimpleImage
    \/ HandleRemoveMedia

Spec == Init /\ [][Next]_vars


\* The export with the data its recorder delivers, over an audio, an upload
\* and the clip made of them.
NextExport ==
    \/ PlayerNext
    \/ RecorderData
    \/ AddAudio
    \/ HandleUpload
    \/ HandleApplySimpleImage

SpecExport == Init /\ [][NextExport]_vars

\* ------------------------------------------------- renderFrame and the store
\* a time the callers of renderFrame pass (the audio clock)
FrameTimes == {500}

\* the renderFrame that a render of the component creates (useCallback over
\* normalizedTimeline); the preview-loop effect, the first-frame effect and
\* renderLoop of handleExport keep the one of the render that made them
TakeRenderFrame ==
    /\ pure.clips # timeline \/ pure.fn = "none"
    /\ pure' = [NoPure EXCEPT !.fn = "useCallback", !.clips = timeline,
                              !.out = normalizedTimeline]
    /\ UNCHANGED <<storeVars, playerVars, lastOp>>

\* a call of the renderFrame that was kept (loop, first-frame effect,
\* renderLoop), possibly after later updates of the store
CallRenderFrame ==
    /\ pure.fn \in {"useCallback", "renderFrame"}
    /\ \E time \in FrameTimes :
         pure' = [pure EXCEPT !.fn = "renderFrame", !.t = time,
                              !.sel = SelectClip(pure.out, time)]
    /\ UNCHANGED <<storeVars, playerVars, lastOp>>

NextFrames ==
    \/ HandleUpload
    \/ HandleModeChange
    \/ HandleAddToTimeline
    \/ HandleRemoveMedia
    \/ UpdateMediaDuration
    \/ TakeRenderFrame
    \/ CallRenderFrame

SpecFrames == Init /\ [][NextFrames]_vars

\* ------------------------------------------------------ drawMedia, a video
\* durations of the video asset and timestamps drawMedia is called with: the
\* local time of a clip, the crossfade timestamp of the clip before, times
\* before 0 and past the end
SeekDurations == {2, 5, 6, 100, 450}
SeekTimes == {0 - 50, 0, 1, 3, 4, 40, 93, 95, 96, 98, 100, 390, 445, 449, 450, 700}

InitSeek ==
    /\ audios = <<>>
    /\ activeAudioId = NULL
    /\ mediaLibrary = <<>>
    /\ timeline = <<>>
    /\ mode = "simples"
    /\ playerState = [isPlaying |-> FALSE, isExporting |-> FALSE, currentTime |-> 0]
    /\ audioEl = [paused |-> TRUE, currentTime |-> 0]
    /\ animationRef = NULL
    /\ rafQueue = {}
    /\ effPlaying = FALSE
    /\ exports = <<>>
    /\ frame = [t |-> 0, by |-> "none"]
    /\ lastOp = "none"
    /\ \E duration \in SeekDurations :
         pure = [NoPure EXCEPT !.fn = "video", !.video.duration = duration]

\* drawMedia of a video asset: nothing is done before the video has data
\* (readyState < 2); the video is sought only if it is not near the target.
\* seeked: this call assigned video.currentTime; from: the position before.
DrawMediaVideo ==
    /\ pure.fn \in {"video", "drawMedia"}
    /\ \E timestamp \in SeekTimes, ready \in BOOLEAN :
         LET video == pure.video
             safeTime == SafeTime(timestamp, video.duration)
             seek == ready /\ Abs(video.currentTime - safeTime) > SEEK_TOLERANCE
         IN  pure' = [pure EXCEPT !.fn = "drawMedia", !.t = timestamp,
                                  !.video = [video EXCEPT
                                      !.currentTime = IF seek THEN safeTime ELSE @,
                                      !.seeked = seek,
                                      !.from = video.currentTime]]
    /\ UNCHANGED <<storeVars, playerVars, lastOp>>

SpecSeek == InitSeek /\ [][DrawMediaVideo]_vars

\* The export under fair scheduling: the audio plays on to its end, every
\* pending frame request is run, effects are flushed, promises are settled
\* and the recorder's stop event is delivered.  The recorder need not fail.
NextLive ==
    \/ PlayerNext
    \/ AddAudio
    \/ HandleUpload
    \/ HandleApplySimpleImage

Fairness ==
    /\ WF_vars(AudioAdvance)
    /\ WF_vars(AudioEnded)
    /\ WF_vars(FlushEffects)
    /\ WF_vars(PreviewLoopStep)
    /\ WF_vars(ExportResumed)
    /\ WF_vars(ExportPlayResolved)
    /\ WF_vars(ExportLoopStep)
    /\ WF_vars(RecorderOnStop)

SpecLive == Init /\ [][NextLive]_vars /\ Fairness

\* Exports one after the other, over an audio and the clip applied to it
\* (the state after addAudio, handleUpload and handleApplySimpleImage).
InitReady ==
    /\ audios = <<[id |-> 1, durationSeconds |-> 300, durationEstimateSeconds |-> 200]>>
    /\ activeAudioId = 1
    /\ mediaLibrary = <<[id |-> 1, kind |-> "image", duration |-> 600]>>
    /\ timeline = <<[id |-> 1, mediaId |-> 1, start |-> 0, duration |-> 300,
                     transition |-> "fade-in"]>>
    /\ mode = "simples"
    /\ playerState = [isPlaying |-> FALSE, isExporting |-> FALSE, currentTime |-> 0]
    /\ audioEl = [paused |-> TRUE, currentTime |-> 0]
    /\ animationRef = NULL
    /\ rafQueue = {}
    /\ effPlaying = FALSE
    /\ exports = <<>>
    /\ frame = [t |-> 0, by |-> "initial"]
    /\ lastOp = "store"
    /\ pure = NoPure

HandleExportAgain == HandleExportUpTo(MaxRepeatExports)

NextRepeat ==
    \/ AudioAdvance
    \/ AudioEnded
    \/ FlushEffects
    \/ PreviewLoopStep
    \/ HandleExportAgain
    \/ ExportResumed
    \/ ExportPlayResolved
    \/ ExportPlayAborted
    \/ ExportLoopStep
    \/ RecorderError
    \/ RecorderOnStop

SpecRepeat == InitReady /\ [][NextRepeat]_vars

\* The store handlers, starting with a generated audio of half a second as
\* the active audio (the state after addAudio of that audio).
InitShortAudio ==
    /\ audios = <<[id |-> 1, durationSeconds |-> 50, durationEstimateSeconds |-> 100]>>
    /\ activeAudioId = 1
    /\ mediaLibrary = <<>>
    /\ timeline = <<>>
    /\ mode = "simples"
    /\ playerState = [isPlaying |-> FALSE, isExporting |-> FALSE, currentTime |-> 0]
    /\ audioEl = [paused |-> TRUE, currentTime |-> 0]
    /\ animationRef = NULL
    /\ rafQueue = {}
    /\ effPlaying = FALSE
    /\ exports = <<>>
    /\ frame = [t |-> 0, by |-> "initial"]
    /\ lastOp = "store"
    /\ pure = NoPure

SpecSimple == InitShortAudio /\ [][StoreNext]_vars

\* The audio list of the store, with several generated audios, beside the
\* media library.
AddAudioMany == AddAudioUpTo(MaxStoredAudios)

NextAudios ==
    \/ AddAudioMany
    \/ SetActiveAudio
    \/ RemoveAudio
    \/ HandleUpload

SpecAudios == Init /\ [][NextAudios]_vars

\* =================================================================== claims
AllPositive(clips) == \A i \in 1..Len(clips) : clips[i].duration > 0

\* C1: normalizeTimeline returns a list of the same length and order, with
\* the id, mediaId, duration and transition of each clip kept, whose first
\* start is 0 and whose every later start is the start before it plus the
\* duration before it, whatever the starts of the argument were.
C1_NormalizeContract ==
    pure.fn \in {"normalizeTimeline", "normalizeTwice", "renderFrame"} =>
        /\ Len(pure.out) = Len(pure.clips)
        /\ \A i \in 1..Len(pure.clips) :
             /\ pure.out[i].id = pure.clips[i].id
             /\ pure.out[i].mediaId = pure.clips[i].mediaId
             /\ pure.out[i].duration = pure.clips[i].duration
             /\ pure.out[i].transition = pure.clips[i].transition
             /\ pure.out[i].start =
                    IF i = 1 THEN 0 ELSE pure.out[i - 1].start + pure.out[i - 1].duration

\* a list of three clips with stale starts has been normalized
C1_Witness ==
    /\ pure.fn = "normalizeTimeline"
    /\ Len(pure.clips) = 3
    /\ pure.clips[1].start # 0
    /\ pure.clips[3].start # pure.out[3].start

\* C2: normalizeTimeline is idempotent: normalizing its own result gives that
\* result again, and a list that satisfies the start invariant comes back equal.
C2_NormalizeIdempotent ==
    /\ pure.fn = "normalizeTwice" => pure.out2 = pure.out
    /\ (pure.fn \in {"normalizeTimeline", "normalizeTwice"} /\ IsNormalized(pure.clips)) =>
           pure.out = pure.clips

\* a list with stale starts has been normalized twice
C2_Witness ==
    /\ pure.fn = "normalizeTwice"
    /\ Len(pure.clips) >= 2
    /\ ~IsNormalized(pure.clips)
    /\ pure.out # pure.clips

\* C3: the timeline held in the store satisfies the normalization invariant
\* after any sequence of timeline mutations.
C3_StoreTimelineNormalized == IsNormalized(timeline)

\* the clips of a normalized list whose interval holds t
Hits(nt, t) == {i \in 1..Len(nt) : nt[i].start <= t /\ t < nt[i].start + nt[i].duration}

\* C4: over a normalized timeline with positive durations and a time t with
\* 0 <= t < total duration, exactly one clip's interval holds t, renderFrame
\* selects that clip with localTime = t - start, and at a boundary between
\* two clips it selects the later one (durations 4 s and 3 s, t = 5 s: the
\* second clip, localTime 1 s).
C4_ClipLookup ==
    (/\ pure.fn = "renderFrame"
     /\ AllPositive(pure.out)
     /\ 0 <= pure.t
     /\ pure.t < Cursor(pure.out, Len(pure.out))) =>
        /\ Cardinality(Hits(pure.out, pure.t)) = 1
        /\ pure.sel.index \in Hits(pure.out, pure.t)
        /\ pure.sel.localTime = pure.t - pure.out[pure.sel.index].start
        /\ \A i \in 2..Len(pure.out) : pure.t = pure.out[i].start => pure.sel.index = i
        /\ (/\ Len(pure.out) = 2
            /\ pure.out[1].duration = 400
            /\ pure.out[2].duration = 300
            /\ pure.t = 500) => pure.sel = [index |-> 2, localTime |-> 100]

\* renderFrame has been asked for the boundary between the first two of
\* three clips
C4_Witness ==
    /\ pure.fn = "renderFrame"
    /\ Len(pure.out) = 3
    /\ AllPositive(pure.out)
    /\ pure.t = pure.out[2].start
    /\ pure.sel = [index |-> 2, localTime |-> 0]


\* C5: a call of handleExport with an empty timeline or without an active
\* audio changes nothing: no export record (capture stream, audio context,
\* recorder) is created, and playerState, the audio element and the frame
\* requests stay as they were.
C5_ExportGated ==
    [][(/\ lastOp # "handleExport"
        /\ lastOp' = "handleExport"
        /\ (Len(timeline) = 0 \/ activeAudio = NoAudio)) =>
           UNCHANGED <<exports, playerState, audioEl, animationRef, rafQueue, frame>>]_vars

\* handleExport has been called with an audio but an empty timeline
C5_Witness ==
    /\ lastOp = "handleExport"
    /\ activeAudio # NoAudio
    /\ Len(timeline) = 0
    /\ exports = <<>>

\* the export of record e is over: handleExport threw, or its recorder stopped
ExportOver(e) == e.pc = "failed" \/ e.recorder = "stopped"

\* C6: once an export that was started has completed or failed, its audio
\* context is closed and its audio nodes are disconnected.
C6_ExportReleasesRouting ==
    \A k \in 1..Len(exports) :
        ExportOver(exports[k]) =>
            /\ exports[k].ctx \in {"none", "closed"}
            /\ exports[k].nodes \in {"none", "disconnected"}

\* C7: a step of the preview loop and a step of the export loop are never
\* both scheduled.
C7_LoopsExclusive ==
    ~(\E a, b \in rafQueue : a.fn = "loop" /\ b.fn = "renderLoop")

\* C8: after a pause no step of the preview loop is left scheduled, so the
\* preview loop renders no frame until the next play.
C8_PauseCancelsLoop ==
    lastOp = "pause" => ~(\E r \in rafQueue : r.fn = "loop")

\* C9: while isPlaying stays true, the timestamps handed to renderFrame do
\* not decrease.
C9_FramesMonotonic ==
    [][(/\ playerState.isPlaying
        /\ playerState'.isPlaying
        /\ frame.by # "none"
        /\ frame'.by # "none") => frame'.t >= frame.t]_vars

\* C10: when isPlaying is false, no export is in progress and the effects of
\* the last render have run, no render step is scheduled.
C10_StoppedMeansNoStep ==
    (~playerState.isPlaying /\ ~playerState.isExporting /\ ~effPlaying) => rafQueue = {}

\* C11: when the audio reaches its end, isPlaying becomes false, the displayed
\* currentTime and the audio clock go back to 0, and a step of the preview
\* loop that finds the audio paused renders once and schedules no further step.
C11_EndedToIdle ==
    [][/\ AudioEnded =>
            /\ ~playerState'.isPlaying
            /\ playerState'.currentTime = 0
            /\ audioEl'.currentTime = 0
            /\ audioEl'.paused
       /\ (PreviewLoopStep /\ audioEl.paused) =>
            /\ ~playerState'.isPlaying
            /\ playerState'.currentTime = playerState.currentTime
            /\ rafQueue' \subseteq rafQueue
            /\ rafQueue' # rafQueue]_vars

\* a preview has played to the end of the audio and its loop has stopped
C11_Witness ==
    /\ lastOp = "play"
    /\ exports = <<>>
    /\ ~playerState.isPlaying
    /\ playerState.currentTime = 0
    /\ audioEl = [paused |-> TRUE, currentTime |-> 0]
    /\ frame = [t |-> 0, by |-> "loop"]
    /\ rafQueue = {}

\* C12: when a step of the export's stream setup throws, the player state is
\* what it was before the call, and the recorder of that export is never
\* started.
C12_SetupFailureLeavesState ==
    [][\A k \in 1..Len(exports') :
          /\ (k > Len(exports) /\ exports'[k].pc = "failed") =>
                 /\ playerState' = playerState
                 /\ exports'[k].recorder = "none"
          /\ (k <= Len(exports) /\ exports[k].pc = "failed" /\ exports[k].recorder = "none") =>
                 exports'[k] = exports[k]]_vars

\* Export was clicked during a preview and the recorder could not be built:
\* the preview goes on
C12_Witness ==
    /\ lastOp = "handleExport"
    /\ Len(exports) = 1
    /\ exports[1] = [NewExport EXCEPT !.pc = "failed", !.ctx = "open", !.nodes = "connected"]
    /\ playerState.isPlaying
    /\ ~playerState.isExporting
    /\ playerState.currentTime > 0

\* C13: an export that failed after it had set isExporting, and that has no
\* step and no recorder event left to run, has released its audio routing and
\* left isExporting false.
C13_FailureUnlocks ==
    \A k \in 1..Len(exports) :
        (exports[k].pc = "failed" /\ exports[k].recorder \in {"inactive", "stopped"}) =>
            /\ ~playerState.isExporting
            /\ exports[k].ctx = "closed"
            /\ exports[k].nodes = "disconnected"

\* the numbers of the non-empty chunks of a record of data events, in order
NonEmptyChunks(received) ==
    LET kept == SelectSeq(received, LAMBDA c : c.size > 0)
    IN  [i \in 1..Len(kept) |-> kept[i].n]

\* C14: a recorder that has fired onstop has produced exactly one artifact,
\* made of every non-empty chunk received, in arrival order; a recorder that
\* has not has produced none; and the step of onstop leaves the player Idle
\* (isExporting false, isPlaying false, currentTime 0) with the audio paused
\* at 0.
C14_FinalizeOneArtifact ==
    [][/\ \A k \in 1..Len(exports') :
            IF exports'[k].recorder = "stopped"
            THEN /\ Len(exports'[k].artifacts) = 1
                 /\ exports'[k].artifacts[1] = NonEmptyChunks(exports'[k].received)
            ELSE exports'[k].artifacts = <<>>
       /\ RecorderOnStop =>
            /\ playerState' = [isPlaying |-> FALSE, isExporting |-> FALSE, currentTime |-> 0]
            /\ audioEl' = [paused |-> TRUE, currentTime |-> 0]]_vars

\* an export ran to the end of the audio, its recorder delivered an empty and
\* a non-empty chunk, and onstop built the artifact from the non-empty one
C14_Witness ==
    /\ Len(exports) = 1
    /\ exports[1].pc = "released"
    /\ exports[1].recorder = "stopped"
    /\ exports[1].received = <<[n |-> 1, size |-> 0], [n |-> 2, size |-> 1]>>
    /\ exports[1].artifacts = <<(<<2>>)>>
    /\ ~playerState.isExporting
    /\ frame.by = "renderLoop"

\* C15: the duration-mismatch advisory is shown exactly when there is an
\* active audio and its playable duration differs from the total duration of
\* the timeline by more than 0.8 s.
C15_MismatchIffOverTolerance ==
    pure.fn = "durationMismatch" =>
        (pure.mismatch <=>
            /\ pure.audio # NoAudio
            /\ Abs(pure.audio.durationSeconds - Cursor(pure.out, Len(pure.out))) > 80)

\* the clip renderFrame chose, its local time, and whether its media is cached
Chosen == pure.out[pure.sel.index]
ChosenDrawn == pure.fn = "renderFrame" /\ pure.sel.index > 0 /\ Chosen.mediaId \in pure.cache
InCrossfade == ChosenDrawn /\ Chosen.transition = "crossfade" /\ pure.sel.index > 1

\* clamp(localTime / 0.6, 0, 1) as an opacity, computed from the local time
ClampedOpacity(localTime) ==
    IF localTime <= 0 THEN 0 ELSE IF localTime >= 60 THEN 300 ELSE 5 * localTime

\* C16: in a crossfade that draws both clips, the opacity of the previous
\* clip plus the opacity of the current clip is 1, and the opacity of the
\* current clip is clamp(localTime / 0.6, 0, 1); at localTime 0.2 s they are
\* 2/3 and 1/3.
C16_CrossfadeConserves ==
    (InCrossfade /\ pure.out[pure.sel.index - 1].mediaId \in pure.cache) =>
        /\ pure.layers.prev + pure.layers.cur = 300
        /\ pure.layers.cur = ClampedOpacity(pure.sel.localTime)
        /\ pure.sel.localTime = 20 => (pure.layers.prev = 200 /\ pure.layers.cur = 100)

\* a frame 0.2 s into a crossfade has been rendered
C16_Witness ==
    /\ InCrossfade
    /\ pure.sel.localTime = 20
    /\ pure.layers.prev = 200
    /\ pure.layers.cur = 100

\* C17: over a fade-in clip the black overlay has opacity
\* 1 - clamp(localTime / 0.6, 0, 1): 1 at localTime 0, 0.5 at 0.3 s, 0 from
\* 0.6 s on, and strictly decreasing in the progress.
C17_FadeInOverlay ==
    (ChosenDrawn /\ Chosen.transition = "fade-in") =>
        /\ pure.layers.overlay = "black"
        /\ pure.layers.cur = 300
        /\ pure.layers.overlayAlpha = 300 - ClampedOpacity(pure.sel.localTime)
        /\ pure.sel.localTime = 0 => pure.layers.overlayAlpha = 300
        /\ pure.sel.localTime = 30 => pure.layers.overlayAlpha = 150
        /\ pure.sel.localTime >= 60 => pure.layers.overlayAlpha = 0
        /\ \A p, q \in 0..60 : p < q => FadeInAlpha(p) > FadeInAlpha(q)

\* a frame 0.3 s into a fade-in clip has been rendered
C17_Witness ==
    /\ ChosenDrawn
    /\ Chosen.transition = "fade-in"
    /\ pure.sel.localTime = 30
    /\ pure.layers.overlayAlpha = 150

\* max(0, 1 - 2 * progress) as an opacity, computed from the local time
FlashOpacity(localTime) ==
    IF localTime >= 30 THEN 0 ELSE IF localTime <= 0 THEN 300 ELSE 300 - 10 * localTime

C19_ClipDurationsByKind ==
    \A i \in 1..Len(timeline) :
        LET asset == AssetOf(mediaLibrary, timeline[i].mediaId)
        IN  /\ asset.kind = "video" => timeline[i].duration = asset.duration
            /\ asset.kind = "image" => (200 <= timeline[i].duration /\ timeline[i].duration <= 2000)

\* C20: every clip of the timeline references an asset of the media library.
C20_NoDanglingClip ==
    \A i \in 1..Len(timeline) : AssetOf(mediaLibrary, timeline[i].mediaId) # NoAsset

\* the first of two assets was removed from the library while both had a clip:
\* its clip went with it, the clip of the other asset is left
C20_Witness ==
    /\ Len(mediaLibrary) = 1
    /\ mediaLibrary[1].id = 2
    /\ Len(timeline) = 1
    /\ timeline[1].mediaId = 2
    /\ timeline[1].start > 0

\* export k has scheduled its loop and has not finalized, and no step of its
\* loop is scheduled: nothing is left that stops its recorder or releases its
\* audio routing
Orphaned(k) ==
    /\ exports[k].pc = "loop"
    /\ ~(\E r \in rafQueue : r.fn = "renderLoop" /\ r.gen = k)

\* C21: when the media of the timeline or the active audio has been removed
\* during an export, the export is not left with its render step cancelled
\* and its recorder running and audio routing open.
C21_RemovalReleasesExport ==
    (Len(timeline) = 0 \/ activeAudio = NoAudio) =>
        \A k \in 1..Len(exports) :
            Orphaned(k) =>
                /\ exports[k].recorder \in {"stopping", "stopped"}
                /\ exports[k].ctx = "closed"
                /\ exports[k].nodes = "disconnected"

\* C22: once the transition window has elapsed (localTime >= 0.6 s), what
\* renderFrame draws for the clip is what it draws for transition "nenhuma":
\* the current clip at full opacity, and nothing else that changes a pixel.
C22_AfterWindowLikeNone ==
    (ChosenDrawn /\ pure.sel.localTime >= 60) =>
        /\ pure.layers.cur = 300
        /\ pure.layers.prev \in {NotDrawn, 0}
        /\ pure.layers.overlay = "none" \/ pure.layers.overlayAlpha = 0
        /\ pure.layers.erased = 0

\* C23: for a negative timestamp renderFrame renders what it renders for
\* timestamp 0: the first clip, with localTime 0.
C23_NegativeTimeAsZero ==
    (pure.fn = "renderFrame" /\ pure.t < 0 /\ Len(pure.out) > 0) =>
        /\ pure.sel = [index |-> 1, localTime |-> 0]
        /\ pure.layers = RenderedLayers(pure.out, 0, pure.cache)

\* C24: when the media of the clip chosen is not in the cache, the call of
\* renderFrame leaves the canvas as it was: nothing is filled and nothing is
\* drawn.
C24_CacheMissKeepsSurface ==
    (pure.fn = "renderFrame" /\ pure.sel.index > 0 /\ Chosen.mediaId \notin pure.cache) =>
        /\ ~pure.layers.background
        /\ pure.layers.prev = NotDrawn
        /\ pure.layers.cur = NotDrawn
        /\ pure.layers.overlay = "none"
        /\ pure.layers.erased = 0

C27_PreviousContinues ==
    (InCrossfade /\ pure.layers.prev # NotDrawn /\ pure.sel.localTime >= 0) =>
        LET previousClip == pure.out[pure.sel.index - 1]
        IN  /\ pure.sel.localTime = 0 => pure.layers.prevTime = previousClip.duration
            /\ pure.layers.prevTime >= previousClip.duration
            /\ \A u \in 0..pure.sel.localTime :
                  PreviousTimestamp(previousClip.duration, u) <= pure.layers.prevTime

\* C28: a position that drawMedia assigns to a video is at least 0 and less
\* than the duration of the asset, whatever the timestamp asked for, and it
\* is assigned only when the video was more than 0.03 s away from it.
C28_SeekInsideVideo ==
    (pure.fn = "drawMedia" /\ pure.video.seeked) =>
        /\ pure.video.currentTime >= 0
        /\ pure.video.currentTime < pure.video.duration
        /\ Abs(pure.video.from - pure.video.currentTime) > 3

\* a video of 4.5 s has been asked for a time past its end and sought to
\* 4.45 s
C28_Witness ==
    /\ pure.fn = "drawMedia"
    /\ pure.video.seeked
    /\ pure.video.duration = 450
    /\ pure.t > 450
    /\ pure.video.currentTime = 445

\* the places of a call in the calls of an export
Places(k, call) == {i \in 1..Len(exports[k].calls) : exports[k].calls[i] = call}

\* C29: the first step of the export loop that finds the audio paused leaves
\* no export-loop request pending, stops the recorder, disconnects the audio
\* nodes and closes the audio context; recorder.stop is called once per
\* export, and no export-loop step is pending after it.
C29_PausedStepReleases ==
    [][\A r \in rafQueue :
          (/\ r.fn = "renderLoop"
           /\ audioEl.paused
           /\ r \notin rafQueue'
           /\ exports'[r.gen].calls # exports[r.gen].calls)
          => /\ ~(\E q \in rafQueue' : q.fn = "renderLoop" /\ q.gen = r.gen)
             /\ exports'[r.gen].recorder \in {"stopping", "stopped"}
             /\ exports'[r.gen].nodes = "disconnected"
             /\ exports'[r.gen].ctx = "closed"
             /\ Cardinality(Places(r.gen, "recorder.stop")') = 1]_vars

\* C30: in an export the audio clock is set to 0 before the audio is played,
\* the audio is played before the recorder is started, and the export loop
\* renders its first frame after both.
C30_ClockPlayRecord ==
    \A k \in 1..Len(exports) :
        /\ \A i \in Places(k, "audio.play") :
              \E j \in Places(k, "currentTime = 0") : j < i
        /\ \A i \in Places(k, "recorder.start") :
              \E j \in Places(k, "audio.play") : j < i
        /\ (\E r \in rafQueue : r.fn = "renderLoop" /\ r.gen = k) =>
              (Places(k, "audio.play") # {} /\ Places(k, "recorder.start") # {})

\* C31: a click on Preview with no active audio or with an empty timeline
\* starts nothing: isPlaying, the audio element and the frame requests stay
\* as they were, so an idle player stays idle.
C31_DisabledPreviewStartsNothing ==
    [][(HandlePlayToggle /\ (activeAudio = NoAudio \/ Len(timeline) = 0))
          => /\ playerState' = playerState
             /\ audioEl' = audioEl
             /\ rafQueue' = rafQueue
             /\ (~playerState.isPlaying =>
                    (~playerState'.isPlaying /\ audioEl'.currentTime = audioEl.currentTime))]_vars

\* Preview has been clicked with an audio but no clip, the player idle
C31_Witness ==
    /\ lastOp = "preview disabled"
    /\ activeAudio # NoAudio
    /\ Len(timeline) = 0
    /\ ~playerState.isPlaying
    /\ audioEl.paused
    /\ rafQueue = {}

\* C32: a crossfade clip that is the first clip of the timeline is rendered
\* as a clip without transition: its media at opacity 1 at every local time,
\* no previous media, no overlay, nothing erased.
C32_FirstCrossfadeLikeNone ==
    (ChosenDrawn /\ Chosen.transition = "crossfade" /\ pure.sel.index = 1) =>
        /\ pure.layers.cur = OpacityOne
        /\ pure.layers.prev = NotDrawn
        /\ pure.layers.overlay = "none"
        /\ pure.layers.erased = 0
        /\ pure.layers =
              RenderedLayers([pure.out EXCEPT ![1].transition = "nenhuma"],
                             pure.t, pure.cache)

\* a first clip declared crossfade has been rendered inside its window
C32_Witness ==
    /\ ChosenDrawn
    /\ Chosen.transition = "crossfade"
    /\ pure.sel.index = 1
    /\ pure.sel.localTime = 20
    /\ Len(pure.out) = 2
    /\ pure.layers.cur = OpacityOne

\* C33: over a cine-sweep clip the wipe reveals the left part of the canvas
\* of width CANVAS_WIDTH * progress (nothing at progress 0, all 1280 pixels
\* at progress 1), and the clip's frame shows there: none of it is erased.
C33_SweepRevealsFrame ==
    (ChosenDrawn /\ Chosen.transition = "cine-sweep") =>
        /\ pure.layers.swept = (CANVAS_WIDTH * ClampedOpacity(pure.sel.localTime)) \div 5
        /\ pure.sel.localTime <= 0 => pure.layers.swept = 0
        /\ pure.sel.localTime >= 60 => pure.layers.swept = 1280 * 60
        /\ pure.layers.cur = OpacityOne
        /\ pure.layers.erased = 0

\* an export has scheduled its loop and is in progress
ExportStarted ==
    playerState.isExporting /\ \E k \in 1..Len(exports) : exports[k].pc = "loop"

\* C34: an export that has started, with the audio playing on to its end
\* and every callback scheduled fairly, leads to a state with isExporting
\* and isPlaying both false, however the preview-loop effect and the export
\* loop interleave.
C34_ExportFinishes ==
    ExportStarted ~> (~playerState.isExporting /\ ~playerState.isPlaying)

\* the exports whose audio context is open, and those whose recorder records
OpenContexts == {k \in 1..Len(exports) : exports[k].ctx = "open"}
Recording == {k \in 1..Len(exports) : exports[k].recorder = "recording"}

\* C35: handleExport starts no export while isExporting is true, and at no
\* time are two audio contexts open or two recorders recording.
C35_OneExportAtATime ==
    /\ [][Len(exports') > Len(exports) => ~playerState.isExporting]_vars
    /\ [](Cardinality(OpenContexts) <= 1 /\ Cardinality(Recording) <= 1)

\* C36: in simple mode the timeline holds at most one clip; the change to
\* simple mode keeps the first clip only, and handleApplySimpleImage stores
\* exactly one clip, with start 0, duration max(1, audio duration) and
\* transition fade-in.
C36_SimpleModeOneClip ==
    /\ [](mode = "simples" => Len(timeline) <= 1)
    /\ [][(HandleModeChange /\ mode' = "simples")
            => timeline' = SubSeq(timeline, 1, Min(1, Len(timeline)))]_vars
    /\ [][HandleApplySimpleImage
            => /\ Len(timeline') = 1
               /\ timeline'[1].start = 0
               /\ timeline'[1].duration =
                     IF AudioDuration(activeAudio) < 100 THEN 100
                     ELSE AudioDuration(activeAudio)
               /\ timeline'[1].transition = "fade-in"]_vars

\* an asset has been applied to the audio of half a second, in simple mode,
\* with a second asset in the library
C36_Witness ==
    /\ mode = "simples"
    /\ activeAudio.durationSeconds = 50
    /\ Len(mediaLibrary) = 2
    /\ Len(timeline) = 1
    /\ timeline[1].duration = 100
    /\ timeline[1].transition = "fade-in"

\* C37: every play of the preview, from idle or from a pause, sets the audio
\* clock and the displayed currentTime to 0 and starts the audio from
\* there, wherever the audio was paused.
C37_PlayRestarts ==
    [][(HandlePlayToggle /\ ~ButtonsDisabled /\ ~playerState.isPlaying)
          => /\ playerState'.isPlaying
             /\ playerState'.currentTime = 0
             /\ audioEl' = [paused |-> FALSE, currentTime |-> 0]]_vars

\* the preview has been played again after frames of an earlier play, the
\* last of them at a time after 0
C37_Witness ==
    /\ lastOp = "play"
    /\ frame.by = "none"
    /\ frame.t > 0
    /\ playerState.isPlaying
    /\ playerState.currentTime = 0
    /\ audioEl = [paused |-> FALSE, currentTime |-> 0]

\* the ids of a list of audios
AudioIds(as) == {a.id : a \in Range(as)}

\* C38: activeAudioId is null or the id of an audio in the list; addAudio
\* makes the new audio active; removeAudio of the active audio makes the
\* first audio that remains active, or null when none remains, and
\* removeAudio of another audio leaves activeAudioId as it was.
C38_ActiveAudioInList ==
    /\ [](activeAudioId = NULL \/ activeAudioId \in AudioIds(audios))
    /\ [][Len(audios') > Len(audios) => activeAudioId' = audios'[1].id]_vars
    /\ [][Len(audios') < Len(audios)
            => activeAudioId' =
                 IF activeAudioId \in AudioIds(audios') THEN activeAudioId
                 ELSE IF Len(audios') > 0 THEN audios'[1].id ELSE NULL]_vars

\* the second of three audios has been removed and the newest one is active
C38_Witness ==
    /\ Len(audios) = 2
    /\ audios[1].id = 3
    /\ audios[2].id = 1
    /\ activeAudioId = 3

====
